---------------------------- MODULE Spec2Model ----------------------------
(***************************************************************************)
(* A model of the Terraria server orchestrator (setup_terraria.py) and of  *)
(* the helpers it imports from instalar_playit.py.                         *)
(*                                                                         *)
(* The main thread of setup_terraria.main is a state machine whose         *)
(* position is pc; an exception in flight is exc.  download_file is a      *)
(* sub-machine of the main thread (pc = "dl_loop", "dl_get", "dl_except")  *)
(* entered from setup_terraria_server and from setup_ngrok, and on its own *)
(* in SpecDownload, where max_retries is arbitrary.  The notifier thread   *)
(* of send_to_discord and the server_monitor thread run beside the main    *)
(* thread.  graceful_shutdown on its own is SpecShutdown; add_to_crontab   *)
(* of instalar_playit.py, called twice, is SpecCrontab.                    *)
(***************************************************************************)
EXTENDS Integers, Sequences, FiniteSets, TLC

VARIABLES
    pc,          \* position of the main thread
    exc,         \* exception in flight in the main thread (NoExc if none)
    dl,          \* the running download_file call
    files,       \* the archive files on disk
    cfgFile,     \* terraria_config.json as persisted
    config,      \* the config dict of main
    playit,      \* the playit package and its installation commands
    processes,   \* the list `processes` of main
    spawned,     \* subprocesses started with Popen so far
    signalled,   \* subprocesses that were sent a terminate signal
    elapsed,     \* time.time() - start_time of the ngrok scan, in seconds
    line,        \* the local line of setup_ngrok: what readline returned last
    tunnel_url,  \* the local tunnel_url of setup_ngrok (<<>>: None or '')
    announced,   \* the addresses printed for the operator
    notifier,    \* the thread started by send_to_discord
    posts,       \* the requests.post calls made so far
    shutdown,    \* the graceful_shutdown call
    exitStatus,  \* "running", or how the interpreter ended
    monitor,     \* the thread that runs server_monitor
    crontab,     \* the crontab of the user
    cron         \* the add_to_crontab calls of instalar_playit.py

dlVars == <<dl, files>>
cfgVars == <<cfgFile, config>>
procVars == <<processes, spawned, signalled>>
tunnelVars == <<elapsed, line, tunnel_url, announced>>
notifVars == <<notifier, posts>>
mainOnly == <<cfgFile, config, playit, processes, spawned, signalled, elapsed,
              line, tunnel_url, announced, notifier, posts, shutdown, exitStatus>>
cronVars == <<crontab, cron>>
vars == <<pc, exc, dl, files, cfgFile, config, playit, processes, spawned,
          signalled, elapsed, line, tunnel_url, announced, notifier, posts,
          shutdown, exitStatus, monitor, crontab, cron>>

NoExc == [type |-> "None", msg |-> ""]
Exc(type, msg) == [type |-> type, msg |-> msg]

---------------------------------------------------------------------------
(* Bounds *)

\* largest max_retries tried in SpecDownload
MaxRetries == 5

\* the clock of the ngrok scan stops here, in seconds
MaxElapsed == 33

\* the iterations of server_monitor that are followed
MaxIterations == 2

\* the longest crontab add_to_crontab is started on, in lines
MaxCronLines == 2

---------------------------------------------------------------------------
(* download_file *)

\* the default of the max_retries parameter
DEFAULT_MAX_RETRIES == 3

Archives == {"terraria-server.zip", "ngrok.zip", "artifact"}

\* What one pass through the try block of download_file can do:
\*   "ok"         GET and raise_for_status succeed, the whole body is written
\*   "net_get"    requests.get or raise_for_status raises a RequestException
\*   "net_stream" iter_content raises a RequestException after the file was opened
\*   "os_error"   destination.open or f.write raises OSError (no RequestException)
AttemptOutcomes == {"ok", "net_get", "net_stream", "os_error"}
NetworkFailures == {"net_get", "net_stream"}

RECURSIVE Pow2(_)
Pow2(n) == IF n <= 0 THEN 1 ELSE 2 * Pow2(n - 1)

\* wait_time = 2 ** attempt
WaitTimeLinear(attempt) == 2 * attempt
WaitTime(attempt) == Pow2(attempt)

\* if attempt < max_retries - 1
ShouldRetry(attempt, max_retries) == attempt < max_retries - 1

NoDownload ==
    [max |-> 0, attempt |-> 0, gets |-> 0, sleeps |-> <<>>, outcomes |-> <<>>,
     caller |-> "none", dest |-> "artifact", result |-> "none"]

NewDownload(caller, dest, max_retries) ==
    [max |-> max_retries, attempt |-> 0, gets |-> 0, sleeps |-> <<>>,
     outcomes |-> <<>>, caller |-> caller, dest |-> dest, result |-> "none"]

\* The file at the destination after one pass through the try block:
\* destination.open('wb') truncates, the chunks are written as they arrive.
DestAfter(outcome, before) ==
    CASE outcome = "ok"         -> "full"
      [] outcome = "net_stream" -> "partial"
      [] outcome = "net_get"    -> before
      [] outcome = "os_error"   -> before

\* for attempt in range(max_retries): the head of the loop.  A loop that is
\* over falls off the end of the function, which returns None.
DlLoop ==
    /\ pc = "dl_loop"
    /\ IF dl.attempt < dl.max
          THEN /\ pc' = "dl_get"
               /\ dl' = dl
          ELSE /\ pc' = "dl_return"
               /\ dl' = [dl EXCEPT !.result = "returned"]
    /\ UNCHANGED <<exc, files, mainOnly>>
    /\ UNCHANGED <<monitor, cronVars>>

\* The try block: GET, raise_for_status, write the body.
DlGet ==
    /\ pc = "dl_get"
    /\ \E outcome \in AttemptOutcomes :
         /\ dl' = [dl EXCEPT !.gets = @ + 1,
                             !.outcomes = Append(@, outcome),
                             !.result = CASE outcome = "ok" -> "returned"
                                          [] outcome = "os_error" -> "OSError"
                                          [] OTHER -> @]
         /\ files' = [files EXCEPT ![dl.dest] = DestAfter(outcome, @)]
         /\ pc' = CASE outcome = "ok" -> "dl_return"
                    [] outcome = "os_error" -> "dl_raise"
                    [] OTHER -> "dl_except"
    /\ UNCHANGED <<exc, mainOnly>>
    /\ UNCHANGED <<monitor, cronVars>>

\* except RequestException: sleep and continue, or log and raise ServerError.
DlExcept ==
    /\ pc = "dl_except"
    /\ IF ShouldRetry(dl.attempt, dl.max)
          THEN /\ dl' = [dl EXCEPT !.sleeps = Append(@, WaitTime(dl.attempt)),
                                   !.attempt = @ + 1]
               /\ pc' = "dl_loop"
          ELSE /\ dl' = [dl EXCEPT !.result = "ServerError"]
               /\ pc' = "dl_raise"
    /\ UNCHANGED <<exc, files, mainOnly>>
    /\ UNCHANGED <<monitor, cronVars>>

\* download_file called on its own: the call is over.
DlDone ==
    /\ pc \in {"dl_return", "dl_raise"}
    /\ dl.caller = "direct"
    /\ pc' = "dl_done"
    /\ UNCHANGED <<exc, dl, files, mainOnly>>
    /\ UNCHANGED <<monitor, cronVars>>

---------------------------------------------------------------------------
(* Raising in the main thread: every exception raised inside the try block *)
(* of main unwinds to its except clauses.                                  *)

Raise(type, msg) ==
    /\ exc' = Exc(type, msg)
    /\ pc' = "main_except"

---------------------------------------------------------------------------
(* load_config, save_config *)

\* A token or webhook string is modelled by its class: "None" (absent or
\* null), "valid" (matches NGROK_TOKEN_REGEX, DISCORD_WEBHOOK_REGEX) or
\* "invalid" (a non-empty string that does not match).
FieldValues == {"None", "valid", "invalid"}
InputValues == {"valid", "invalid"}

\* re.match(REGEX, value)
Matches(value) == value = "valid"

\* `if value`: None and '' are falsy
Truthy(value) == value # "None"

EmptyConfig == [ngrok_token |-> "None", discord_webhook |-> "None"]

CfgFiles ==
    {[state |-> "absent", ngrok_token |-> "None", discord_webhook |-> "None"],
     [state |-> "corrupt", ngrok_token |-> "None", discord_webhook |-> "None"]}
    \cup [state : {"ok"}, ngrok_token : FieldValues, discord_webhook : FieldValues]

\* The outcome of load_config on a persisted file: the config it returns, or
\* "exit" where it calls sys.exit(1) (corrupt JSON; a ConfigError raised by
\* the shape checks, caught by its own `except Exception`).
LoadOutcomeLenient(file) ==
    IF file.state = "corrupt" THEN "exit" ELSE "return"
LoadOutcome(file) ==
    CASE file.state = "absent" -> "return"
      [] file.state = "corrupt" -> "exit"
      [] Truthy(file.ngrok_token) /\ ~Matches(file.ngrok_token) -> "exit"
      [] Truthy(file.discord_webhook) /\ ~Matches(file.discord_webhook) -> "exit"
      [] OTHER -> "return"

LoadConfig ==
    /\ pc = "load_config"
    /\ IF LoadOutcome(cfgFile) = "return"
          THEN /\ config' = IF cfgFile.state = "absent"
                               THEN EmptyConfig
                               ELSE [ngrok_token |-> cfgFile.ngrok_token,
                                     discord_webhook |-> cfgFile.discord_webhook]
               /\ pc' = "setup_directories"
               /\ exc' = exc
          ELSE /\ config' = config
               /\ Raise("SystemExit", "1")
    /\ UNCHANGED <<dl, files, cfgFile, playit, procVars, tunnelVars, notifVars,
                   shutdown, exitStatus>>
    /\ UNCHANGED <<monitor, cronVars>>

\* json.dump(config) to CONFIG_FILE
Saved(cfg) ==
    [state |-> "ok", ngrok_token |-> cfg.ngrok_token,
     discord_webhook |-> cfg.discord_webhook]

---------------------------------------------------------------------------
(* setup_directories, create_symlink, setup_terraria_server *)

SetupDirectories ==
    /\ pc = "setup_directories"
    /\ \E ok \in BOOLEAN :
         IF ok THEN pc' = "create_symlink" /\ exc' = exc
               ELSE Raise("ServerError", "setup_directories")
    /\ UNCHANGED <<dl, files, mainOnly>>
    /\ UNCHANGED <<monitor, cronVars>>

CreateSymlink ==
    /\ pc = "create_symlink"
    /\ \E ok \in BOOLEAN :
         IF ok THEN pc' = "setup_terraria_server" /\ exc' = exc
               ELSE Raise("ServerError", "create_symlink")
    /\ UNCHANGED <<dl, files, mainOnly>>
    /\ UNCHANGED <<monitor, cronVars>>

\* Lines 143-149: return if the server is there, else start the download.
SetupTerrariaServer ==
    /\ pc = "setup_terraria_server"
    /\ \E installed \in BOOLEAN :
         IF installed
            THEN pc' = "start_monitor" /\ dl' = dl
            ELSE /\ pc' = "dl_loop"
                 /\ dl' = NewDownload("terraria", "terraria-server.zip",
                                      DEFAULT_MAX_RETRIES)
    /\ UNCHANGED <<exc, files, mainOnly>>
    /\ UNCHANGED <<monitor, cronVars>>

\* zip_path.unlink(missing_ok=True) of the finally clause (line 165)
Unlinked(f, archive) == [f EXCEPT ![archive] = "absent"]

\* download_file returns to setup_terraria_server or to setup_ngrok; its
\* locals are gone.
DlReturnToCaller ==
    /\ pc = "dl_return"
    /\ dl.caller \in {"terraria", "ngrok"}
    /\ pc' = IF dl.caller = "terraria" THEN "terraria_extract" ELSE "ngrok_extract"
    /\ dl' = NoDownload
    /\ UNCHANGED <<exc, files, mainOnly>>
    /\ UNCHANGED <<monitor, cronVars>>

\* download_file raises: setup_terraria_server unlinks the archive in its
\* finally clause on the way out, setup_ngrok has no handler.
DlRaiseToCaller ==
    /\ pc = "dl_raise"
    /\ dl.caller \in {"terraria", "ngrok"}
    /\ Raise(dl.result, "download_file")
    /\ files' = IF dl.caller = "terraria"
                   THEN Unlinked(files, "terraria-server.zip") ELSE files
    /\ dl' = NoDownload
    /\ UNCHANGED mainOnly
    /\ UNCHANGED <<monitor, cronVars>>

\* Lines 151-165: extract, find the binary, chmod; the archive is unlinked
\* whichever way the try block ends.
TerrariaExtract ==
    /\ pc = "terraria_extract"
    /\ \E outcome \in {"ok", "bad_zip", "no_binary", "os_error"} :
         CASE outcome = "ok" -> pc' = "create_server_config" /\ exc' = exc
           [] outcome = "bad_zip" -> Raise("ServerError", "bad_zip")
           [] outcome = "no_binary" -> Raise("FileNotFoundError", "no_binary")
           [] outcome = "os_error" -> Raise("OSError", "extract")
    /\ files' = Unlinked(files, "terraria-server.zip")
    /\ UNCHANGED <<dl, mainOnly>>
    /\ UNCHANGED <<monitor, cronVars>>

CreateServerConfig ==
    /\ pc = "create_server_config"
    /\ \E ok \in BOOLEAN :
         IF ok THEN pc' = "start_monitor" /\ exc' = exc
               ELSE Raise("ServerError", "create_server_config")
    /\ UNCHANGED <<dl, files, mainOnly>>
    /\ UNCHANGED <<monitor, cronVars>>

---------------------------------------------------------------------------
(* server_monitor: a daemon thread, started by main and never joined *)

\* time.sleep(300)
MONITOR_INTERVAL == 300

\* state: "none" (not started), "sleep" (at the head of the loop, about to
\* sleep), "inspect" (the sleep is over, the try block is next), "dead" (the
\* function has ended), "killed" (the interpreter has exited under it).
\* slept: the length of the sleep just finished; last: how the last pass
\* through the try block ended; logged: what that pass logged last.
NoMonitor == [state |-> "none", slept |-> 0, iterations |-> 0,
              last |-> "none", logged |-> "nothing"]

\* Line 299.
MonitorSleep ==
    /\ monitor.state = "sleep"
    /\ exitStatus = "running"
    /\ monitor.iterations < MaxIterations
    /\ monitor' = [monitor EXCEPT !.state = "inspect", !.slept = MONITOR_INTERVAL]
    /\ UNCHANGED <<pc, exc, dl, files, mainOnly, cronVars>>

\* What one pass through the try block (lines 300-309) can do:
\*   "no_server" no process is named TerrariaServer, nothing is logged
\*   "saved"     SIGUSR1 was sent to each one found
\*   "raised"    process_iter, p.name() or send_signal raised
\* A game server is found only if one runs.
IterationOutcomes ==
    {"no_server", "raised"} \cup (IF "server" \in spawned THEN {"saved"} ELSE {})

LoggedBy(outcome, before) ==
    CASE outcome = "saved" -> "saving"
      [] outcome = "raised" -> "error"
      [] OTHER -> before

\* Lines 300-311: the try block and its `except Exception`, then back to
\* the head of `while True`.
MonitorIterateUncaught ==
    /\ monitor.state = "inspect"
    /\ exitStatus = "running"
    /\ \E outcome \in IterationOutcomes :
         monitor' = [state |-> IF outcome = "raised" THEN "dead" ELSE "sleep",
                     slept |-> 0,
                     iterations |-> monitor.iterations + 1,
                     last |-> outcome,
                     logged |-> IF outcome = "raised" THEN monitor.logged
                                ELSE LoggedBy(outcome, monitor.logged)]
    /\ UNCHANGED <<pc, exc, dl, files, mainOnly, cronVars>>
MonitorIterate ==
    /\ monitor.state = "inspect"
    /\ exitStatus = "running"
    /\ \E outcome \in IterationOutcomes :
         monitor' = [state |-> "sleep",
                     slept |-> 0,
                     iterations |-> monitor.iterations + 1,
                     last |-> outcome,
                     logged |-> LoggedBy(outcome, monitor.logged)]
    /\ UNCHANGED <<pc, exc, dl, files, mainOnly, cronVars>>

\* daemon=True: the thread dies with the interpreter, wherever it is.
AbandonedMonitor(mon) ==
    IF mon.state \in {"sleep", "inspect"} THEN [mon EXCEPT !.state = "killed"]
                                          ELSE mon

---------------------------------------------------------------------------
(* main, lines 356-378: the monitor thread, the tunnel choice, the prompts *)

\* Thread(target=server_monitor, daemon=True).start()
StartMonitor ==
    /\ pc = "start_monitor"
    /\ pc' = "choose_tunnel"
    /\ monitor' = [NoMonitor EXCEPT !.state = "sleep"]
    /\ UNCHANGED <<exc, dl, files, mainOnly>>
    /\ UNCHANGED cronVars

\* The input loop of lines 358-362: any other answer asks again.
ChooseTunnel ==
    /\ pc = "choose_tunnel"
    /\ \E choice \in {"1", "2", "other"} :
         pc' = CASE choice = "1" -> "ask_token"
                 [] choice = "2" -> "setup_playit"
                 [] OTHER -> "choose_tunnel"
    /\ UNCHANGED <<exc, dl, files, mainOnly>>
    /\ UNCHANGED <<monitor, cronVars>>

\* save_config: the file is written, or ServerError is raised.
SaveConfig(cfg, next) ==
    \E saved \in BOOLEAN :
      IF saved THEN /\ cfgFile' = Saved(cfg)
                    /\ pc' = next
                    /\ exc' = exc
               ELSE /\ cfgFile' = cfgFile
                    /\ Raise("ServerError", "save_config")

\* Lines 365-370.
AskToken ==
    /\ pc = "ask_token"
    /\ IF Truthy(config.ngrok_token)
          THEN /\ pc' = "ask_webhook"
               /\ UNCHANGED <<exc, config, cfgFile>>
          ELSE \E typed \in InputValues :
                 /\ config' = [config EXCEPT !.ngrok_token = typed]
                 /\ IF Matches(typed)
                       THEN SaveConfig(config', "ask_webhook")
                       ELSE /\ Raise("ConfigError", "ngrok_token")
                            /\ cfgFile' = cfgFile
    /\ UNCHANGED <<dl, files, playit, procVars, tunnelVars, notifVars,
                   shutdown, exitStatus>>
    /\ UNCHANGED <<monitor, cronVars>>

\* Lines 372-378.
AskWebhook ==
    /\ pc = "ask_webhook"
    /\ IF Truthy(config.discord_webhook)
          THEN /\ pc' = "setup_ngrok"
               /\ UNCHANGED <<exc, config, cfgFile>>
          ELSE \E answer \in {"s", "n"} :
                 IF answer = "n"
                    THEN /\ pc' = "setup_ngrok"
                         /\ UNCHANGED <<exc, config, cfgFile>>
                    ELSE \E typed \in InputValues :
                           /\ config' = [config EXCEPT !.discord_webhook = typed]
                           /\ IF Matches(typed)
                                 THEN SaveConfig(config', "setup_ngrok")
                                 ELSE /\ Raise("ConfigError", "discord_webhook")
                                      /\ cfgFile' = cfgFile
    /\ UNCHANGED <<dl, files, playit, procVars, tunnelVars, notifVars,
                   shutdown, exitStatus>>
    /\ UNCHANGED <<monitor, cronVars>>

---------------------------------------------------------------------------
(* Text.  A string is a sequence of tokens; a token stands for a run of     *)
(* characters that the program's string operations never cut: the two      *)
(* markers it searches for, a host, a run of digits, ':' and white space.  *)

Marker == "started tunnel"
UrlKey == "url=tcp://"
Whitespace == {" ", "\n"}
DigitTokens == {"5000", "7"}

\* `tok in s`
Contains(s, tok) == \E i \in 1..Len(s) : s[i] = tok

\* the index of the first tok in s, 0 if there is none
IndexOf(s, tok) ==
    IF Contains(s, tok)
       THEN CHOOSE i \in 1..Len(s) :
              s[i] = tok /\ \A j \in 1..(i - 1) : s[j] # tok
       ELSE 0

After(s, i) == SubSeq(s, i + 1, Len(s))

\* s.split(sep)[1], for an s that contains sep
SplitSecond(s, sep) ==
    LET rest == After(s, IndexOf(s, sep))
        j == IndexOf(rest, sep)
    IN  IF j = 0 THEN rest ELSE SubSeq(rest, 1, j - 1)

RECURSIVE LStrip(_)
LStrip(s) == IF s # <<>> /\ Head(s) \in Whitespace THEN LStrip(Tail(s)) ELSE s

RECURSIVE RStrip(_)
RStrip(s) ==
    IF s # <<>> /\ s[Len(s)] \in Whitespace
       THEN RStrip(SubSeq(s, 1, Len(s) - 1)) ELSE s

\* s.strip()
Strip(s) == RStrip(LStrip(s))

\* s.isdigit()
IsDigit(s) == s # <<>> /\ \A i \in 1..Len(s) : s[i] \in DigitTokens

\* Line 221: "started tunnel" in line and "url=tcp://" in line
LineMatches(text) == Contains(text, Marker) /\ Contains(text, UrlKey)

\* Line 222: line.split("url=tcp://")[1].strip()
ExtractUrl(text) == Strip(SplitSecond(text, UrlKey))

\* The lines the ngrok client may print; readline keeps the line break.
Prefixes == {<<"t=0", " ">>, <<"t=0", " ", Marker, " ">>}
UrlFields == {<<>>, <<UrlKey>>, <<UrlKey, "1.2.3.4">>,
              <<UrlKey, "1.2.3.4", ":", "5000">>}
Suffixes == {<<"\n">>, <<" ", "x=1", "\n">>}
Lines == {p \o u \o s : p \in Prefixes, u \in UrlFields, s \in Suffixes}
\* readline at the end of the stream
EOF == <<>>

---------------------------------------------------------------------------
(* setup_ngrok *)

\* while time.time() - start_time < 30
SCAN_DEADLINE == 30

\* Lines 190-192: download the client if it is not there.
SetupNgrok ==
    /\ pc = "setup_ngrok"
    /\ \E exists \in BOOLEAN :
         IF exists
            THEN pc' = "ngrok_auth" /\ dl' = dl
            ELSE /\ pc' = "dl_loop"
                 /\ dl' = NewDownload("ngrok", "ngrok.zip", DEFAULT_MAX_RETRIES)
    /\ UNCHANGED <<exc, files, mainOnly>>
    /\ UNCHANGED <<monitor, cronVars>>

\* Lines 194-198: extract, chmod, unlink; no handler around them.
NgrokExtract ==
    /\ pc = "ngrok_extract"
    /\ \E outcome \in {"ok", "bad_zip", "os_error"} :
         CASE outcome = "ok" -> /\ pc' = "ngrok_auth"
                                /\ exc' = exc
                                /\ files' = Unlinked(files, "ngrok.zip")
           [] outcome = "bad_zip" -> /\ Raise("BadZipFile", "ngrok.zip")
                                     /\ files' = files
           [] outcome = "os_error" -> /\ Raise("OSError", "extract")
                                      /\ files' = files
    /\ UNCHANGED <<dl, mainOnly>>
    /\ UNCHANGED <<monitor, cronVars>>

\* Lines 200-208: ngrok authtoken, run to its end.
NgrokAuth ==
    /\ pc = "ngrok_auth"
    /\ \E returncode \in {0, 1} :
         IF returncode = 0 THEN pc' = "ngrok_popen" /\ exc' = exc
                           ELSE Raise("ServerError", "ngrok_auth")
    /\ UNCHANGED <<dl, files, mainOnly>>
    /\ UNCHANGED <<monitor, cronVars>>

\* Lines 210-218: start the client, start the clock.
NgrokPopen ==
    /\ pc = "ngrok_popen"
    /\ spawned' = spawned \cup {"ngrok"}
    /\ elapsed' = 0
    /\ tunnel_url' = <<>>
    /\ pc' = "ngrok_scan"
    /\ UNCHANGED <<exc, dl, files, cfgVars, playit, processes, signalled, line,
                   announced, notifVars, shutdown, exitStatus>>
    /\ UNCHANGED <<monitor, cronVars>>

\* Line 219, the head of the loop: the only place the clock is read.
InTime(t) == t < SCAN_DEADLINE
NgrokScan ==
    /\ pc = "ngrok_scan"
    /\ pc' = IF InTime(elapsed) THEN "ngrok_readline" ELSE "ngrok_check"
    /\ UNCHANGED <<exc, dl, files, mainOnly>>
    /\ UNCHANGED <<monitor, cronVars>>

\* Line 220: readline blocks until the client prints a line or closes its
\* output; a second passes.
ReadlineBlock ==
    /\ pc = "ngrok_readline"
    /\ elapsed < MaxElapsed
    /\ elapsed' = elapsed + 1
    /\ UNCHANGED <<pc, exc, dl, files, cfgVars, playit, procVars, line,
                   tunnel_url, announced, notifVars, shutdown, exitStatus>>
    /\ UNCHANGED <<monitor, cronVars>>

\* Lines 220-225: readline returns a line ('' at the end of the stream); a
\* matching line sets tunnel_url, is printed for the operator and ends the loop.
ReadlineReturn ==
    /\ pc = "ngrok_readline"
    /\ \E read \in Lines \cup {EOF} :
         /\ line' = read
         /\ IF LineMatches(read)
               THEN /\ tunnel_url' = ExtractUrl(read)
                    /\ announced' = Append(announced, ExtractUrl(read))
                    /\ pc' = "ngrok_check"
               ELSE /\ pc' = "ngrok_scan"
                    /\ UNCHANGED <<tunnel_url, announced>>
    /\ UNCHANGED <<exc, dl, files, cfgVars, playit, procVars, elapsed,
                   notifVars, shutdown, exitStatus>>
    /\ UNCHANGED <<monitor, cronVars>>

\* Lines 227-229: no address, terminate the client and raise (the locals of
\* setup_ngrok are gone).
NgrokCheck ==
    /\ pc = "ngrok_check"
    /\ IF tunnel_url = <<>>
          THEN /\ signalled' = signalled \cup {"ngrok"}
               /\ Raise("ServerError", "tunnel_url")
               /\ elapsed' = 0
               /\ line' = <<>>
          ELSE /\ signalled' = signalled
               /\ pc' = "send_to_discord"
               /\ exc' = exc
               /\ UNCHANGED <<elapsed, line>>
    /\ UNCHANGED <<dl, files, cfgVars, playit, processes, spawned, tunnel_url,
                   announced, notifVars, shutdown, exitStatus>>
    /\ UNCHANGED <<monitor, cronVars>>

---------------------------------------------------------------------------
(* send_to_discord and its thread *)

NoNotifier == [state |-> "none", webhook |-> "None", address |-> <<>>,
               logged |-> "nothing"]

\* Thread(target=async_send, daemon=True).start()
StartedThread(webhook, full_address) ==
    [state |-> "running", webhook |-> webhook, address |-> full_address,
     logged |-> "nothing"]

\* Lines 261-263 and 295: what send_to_discord leaves behind.
SendToDiscordResult(webhook, full_address) ==
    IF ~Truthy(webhook) THEN NoNotifier
                        ELSE StartedThread(webhook, full_address)

\* Line 231, then 232 and 380-381: notify, return the client (the locals of
\* setup_ngrok are gone), track it.
SendToDiscord ==
    /\ pc = "send_to_discord"
    /\ notifier' = SendToDiscordResult(config.discord_webhook, tunnel_url)
    /\ processes' = Append(processes, "ngrok")
    /\ pc' = "start_terraria_server"
    /\ elapsed' = 0
    /\ line' = <<>>
    /\ tunnel_url' = <<>>
    /\ UNCHANGED <<exc, dl, files, cfgVars, playit, spawned, signalled,
                   announced, posts, shutdown, exitStatus>>
    /\ UNCHANGED <<monitor, cronVars>>

\* Lines 267-272: the address has a ':' and digits after the first one.
WellFormedAlways(full_address) == TRUE
WellFormed(full_address) ==
    /\ Contains(full_address, ":")
    /\ IsDigit(After(full_address, IndexOf(full_address, ":")))

\* ip, port = full_address.split(':', 1)
IpOf(full_address) == SubSeq(full_address, 1, IndexOf(full_address, ":") - 1)
PortOf(full_address) == After(full_address, IndexOf(full_address, ":"))

\* The body of the POST: the two fields of the embed.
PostOfSwapped(webhook, full_address) ==
    [endpoint |-> webhook, ip |-> PortOf(full_address),
     port |-> IpOf(full_address)]
PostOf(webhook, full_address) ==
    [endpoint |-> webhook, ip |-> IpOf(full_address),
     port |-> PortOf(full_address)]

\* async_send up to requests.post: a malformed address raises ValueError,
\* which the thread's own except clause logs.
AsyncSendPost ==
    /\ notifier.state = "running"
    /\ exitStatus = "running"
    /\ IF WellFormed(notifier.address)
          THEN /\ posts' = Append(posts, PostOf(notifier.webhook, notifier.address))
               /\ notifier' = [notifier EXCEPT !.state = "posting"]
          ELSE /\ posts' = posts
               /\ notifier' = [notifier EXCEPT !.state = "done",
                                               !.logged = "error"]
    /\ UNCHANGED <<pc, exc, dl, files, cfgVars, playit, procVars, tunnelVars,
                   shutdown, exitStatus>>
    /\ UNCHANGED <<monitor, cronVars>>

\* requests.post returns or raises (a timeout after 10 s, a connection
\* error, an HTTP error from raise_for_status); all of it is logged.
AsyncSendFinishFatal ==
    /\ notifier.state = "posting"
    /\ exitStatus = "running"
    /\ \E outcome \in {"sent", "error"} :
         /\ notifier' = [notifier EXCEPT !.state = "done", !.logged = outcome]
         /\ IF outcome = "error"
               THEN pc' = "exited" /\ exitStatus' = "1"
               ELSE UNCHANGED <<pc, exitStatus>>
    /\ UNCHANGED <<exc, dl, files, cfgVars, playit, procVars, tunnelVars,
                   posts, shutdown>>
    /\ UNCHANGED <<monitor, cronVars>>
AsyncSendFinish ==
    /\ notifier.state = "posting"
    /\ exitStatus = "running"
    /\ \E outcome \in {"sent", "error"} :
         notifier' = [notifier EXCEPT !.state = "done", !.logged = outcome]
    /\ UNCHANGED <<pc, exc, dl, files, cfgVars, playit, procVars, tunnelVars,
                   posts, shutdown, exitStatus>>
    /\ UNCHANGED <<monitor, cronVars>>

---------------------------------------------------------------------------
(* setup_playit and install_playit *)

\* the four commands of install_playit; the last is `apt install playit`
InstallCommands == <<"key", "source", "apt update", "apt install">>
NoPlayit == [installed |-> FALSE, ran |-> 0, failed |-> FALSE]

\* Line 235: is_playit_installed(), the exit status of `which playit`.
SetupPlayit ==
    /\ pc = "setup_playit"
    /\ \E installed \in BOOLEAN :
         /\ playit' = [installed |-> installed, ran |-> 0, failed |-> FALSE]
         /\ pc' = IF installed THEN "playit_launch" ELSE "install_playit"
    /\ UNCHANGED <<exc, dl, files, cfgVars, procVars, tunnelVars, notifVars,
                   shutdown, exitStatus>>
    /\ UNCHANGED <<monitor, cronVars>>

\* install_playit: run_command runs the next command and prints its
\* outcome; a non-zero exit status raises nothing, and the loop goes on.
\* The package is there once `apt install` has succeeded.
InstallPlayit ==
    /\ pc = "install_playit"
    /\ \E returncode \in {0, 1} :
         playit' = [installed |-> InstallCommands[playit.ran + 1] = "apt install"
                                  /\ returncode = 0,
                    ran |-> playit.ran + 1,
                    failed |-> playit.failed \/ returncode # 0]
    /\ pc' = IF playit.ran + 1 = Len(InstallCommands)
                THEN "playit_launch" ELSE "install_playit"
    /\ UNCHANGED <<exc, dl, files, cfgVars, procVars, tunnelVars, notifVars,
                   shutdown, exitStatus>>
    /\ UNCHANGED <<monitor, cronVars>>

\* Lines 243-258 and 384-386: start the shell that runs playit, sleep 2 s,
\* look for a process named playit; the handle is tracked if one is found.
PlayitLaunchUnverified ==
    /\ pc = "playit_launch"
    /\ spawned' = spawned \cup {"playit"}
    /\ \E found \in (IF playit.installed THEN BOOLEAN ELSE {FALSE}) :
         /\ processes' = IF found THEN Append(processes, "playit") ELSE processes
         /\ pc' = "start_terraria_server"
         /\ exc' = exc
    /\ UNCHANGED <<dl, files, cfgVars, playit, signalled, tunnelVars, notifVars,
                   shutdown, exitStatus>>
    /\ UNCHANGED <<monitor, cronVars>>
PlayitLaunch ==
    /\ pc = "playit_launch"
    /\ spawned' = spawned \cup {"playit"}
    /\ \E found \in (IF playit.installed THEN BOOLEAN ELSE {FALSE}) :
         IF found
            THEN /\ processes' = Append(processes, "playit")
                 /\ pc' = "start_terraria_server"
                 /\ exc' = exc
            ELSE /\ processes' = processes
                 /\ Raise("ServerError", "playit_verify")
    /\ UNCHANGED <<dl, files, cfgVars, playit, signalled, tunnelVars, notifVars,
                   shutdown, exitStatus>>
    /\ UNCHANGED <<monitor, cronVars>>

---------------------------------------------------------------------------
(* start_terraria_server and the wait of line 392 *)

\* Lines 313-334 and 388-389.
StartTerrariaServer ==
    /\ pc = "start_terraria_server"
    /\ \E outcome \in {"started", "no_binary", "popen_error"} :
         IF outcome = "started"
            THEN /\ spawned' = spawned \cup {"server"}
                 /\ processes' = Append(processes, "server")
                 /\ pc' = "server_wait"
                 /\ exc' = exc
            ELSE /\ Raise("ServerError", outcome)
                 /\ UNCHANGED <<spawned, processes>>
    /\ UNCHANGED <<dl, files, cfgVars, playit, signalled, tunnelVars, notifVars,
                   shutdown, exitStatus>>
    /\ UNCHANGED <<monitor, cronVars>>

\* server_proc.wait() returns: the game server has exited.
ServerWait ==
    /\ pc = "server_wait"
    /\ pc' = "main_finally"
    /\ UNCHANGED <<exc, dl, files, mainOnly>>
    /\ UNCHANGED <<monitor, cronVars>>

---------------------------------------------------------------------------
(* Signals *)

\* The positions inside the try block of main, before its handlers.
TryBody ==
    {"load_config", "setup_directories", "create_symlink",
     "setup_terraria_server", "dl_loop", "dl_get", "dl_except", "dl_return",
     "dl_raise", "terraria_extract", "create_server_config", "start_monitor",
     "choose_tunnel", "ask_token", "ask_webhook", "setup_ngrok",
     "ngrok_extract", "ngrok_auth", "ngrok_popen", "ngrok_scan",
     "ngrok_readline", "ngrok_check", "send_to_discord", "setup_playit",
     "install_playit", "playit_launch", "start_terraria_server", "server_wait"}

\* Inside the try block of setup_terraria_server (lines 148-165)?
InTerrariaTry ==
    \/ pc = "terraria_extract"
    \/ pc \in {"dl_loop", "dl_get", "dl_except", "dl_return", "dl_raise"}
       /\ dl.caller = "terraria"

\* SIGINT while the main thread is in the try block: KeyboardInterrupt is
\* raised where it stands and unwinds to the handlers of main; the locals of
\* the functions it leaves are gone.
Interrupt ==
    /\ pc \in TryBody
    /\ Raise("KeyboardInterrupt", "")
    /\ files' = IF InTerrariaTry THEN Unlinked(files, "terraria-server.zip")
                                 ELSE files
    /\ dl' = NoDownload
    /\ elapsed' = 0
    /\ line' = <<>>
    /\ tunnel_url' = <<>>
    /\ UNCHANGED <<cfgVars, playit, procVars, announced, notifVars, shutdown,
                   exitStatus>>
    /\ UNCHANGED <<monitor, cronVars>>

\* The threads that die with the interpreter: daemon=True.
Abandoned(n) ==
    IF n.state \in {"running", "posting"} THEN [n EXCEPT !.state = "killed"] ELSE n

\* SIGTERM: setup_terraria.py installs no handler for it, so the default
\* action ends the interpreter at once: no except clause, no finally clause.
Sigterm ==
    /\ exitStatus = "running"
    /\ pc \in TryBody \cup {"main_except", "main_finally", "shutdown_loop",
                            "shutdown_wait"}
    /\ exitStatus' = "SIGTERM"
    /\ pc' = "exited"
    /\ notifier' = Abandoned(notifier)
    /\ monitor' = AbandonedMonitor(monitor)
    /\ UNCHANGED <<exc, dl, files, cfgVars, playit, procVars, tunnelVars, posts,
                   shutdown>>
    /\ UNCHANGED cronVars

---------------------------------------------------------------------------
(* The handlers of main (lines 394-403) and graceful_shutdown *)

\* p.wait(timeout=10)
SHUTDOWN_WAIT == 10

\* Lines 394-401: the except clauses.  SystemExit (raised by load_config) is
\* no Exception and passes through them.
HandledQuietly(e) ==
    CASE e.type \in {"None", "SystemExit"} -> e
      [] OTHER -> NoExc
Handled(e) ==
    CASE e.type = "None" -> e
      [] e.type = "SystemExit" -> e
      [] e.type = "KeyboardInterrupt" -> NoExc
      [] OTHER -> Exc("SystemExit", "1")

MainExceptLeavesAtOnce ==
    /\ pc = "main_except"
    /\ exc' = Handled(exc)
    /\ IF Handled(exc).type = "SystemExit"
          THEN /\ pc' = "exited"
               /\ exitStatus' = "1"
               /\ notifier' = Abandoned(notifier)
          ELSE /\ pc' = "main_finally"
               /\ UNCHANGED <<exitStatus, notifier>>
    /\ UNCHANGED <<dl, files, cfgVars, playit, procVars, tunnelVars, posts,
                   shutdown>>
    /\ UNCHANGED <<monitor, cronVars>>
MainExcept ==
    /\ pc = "main_except"
    /\ exc' = Handled(exc)
    /\ pc' = "main_finally"
    /\ UNCHANGED <<dl, files, mainOnly>>
    /\ UNCHANGED <<monitor, cronVars>>

NoShutdown == [runs |-> 0, idx |-> 0, calls |-> <<>>, waiting |-> 0,
               errors |-> {}, caller |-> "main"]

\* Line 403: finally: graceful_shutdown(processes).
MainFinally ==
    /\ pc = "main_finally"
    /\ shutdown' = [shutdown EXCEPT !.runs = @ + 1, !.idx = 1]
    /\ pc' = "shutdown_loop"
    /\ UNCHANGED <<exc, dl, files, cfgVars, playit, procVars, tunnelVars,
                   notifVars, exitStatus>>
    /\ UNCHANGED <<monitor, cronVars>>

\* Lines 338-341: the next process of the list; p.terminate() sends the
\* signal or raises, and what it raises is logged by line 346.
ShutdownTerminate ==
    /\ pc = "shutdown_loop"
    /\ shutdown.idx <= Len(processes)
    /\ LET p == processes[shutdown.idx] IN
       \E raises \in BOOLEAN :
         IF raises
            THEN /\ shutdown' = [shutdown EXCEPT !.calls = Append(@, p),
                                                 !.errors = @ \cup {shutdown.idx},
                                                 !.idx = @ + 1]
                 /\ pc' = "shutdown_loop"
                 /\ signalled' = signalled
            ELSE /\ shutdown' = [shutdown EXCEPT !.calls = Append(@, p),
                                                 !.waiting = 0]
                 /\ pc' = "shutdown_wait"
                 /\ signalled' = signalled \cup {p}
    /\ UNCHANGED <<exc, dl, files, cfgVars, playit, processes, spawned,
                   tunnelVars, notifVars, exitStatus>>
    /\ UNCHANGED <<monitor, cronVars>>

\* p.wait(timeout=10): a second passes and the process is still there.
WaitUnbounded(waiting) == TRUE
WaitGoesOn(waiting) == waiting < SHUTDOWN_WAIT

ShutdownWaitTick ==
    /\ pc = "shutdown_wait"
    /\ WaitGoesOn(shutdown.waiting)
    /\ shutdown.waiting <= SHUTDOWN_WAIT    \* the clock of the model stops
    /\ shutdown' = [shutdown EXCEPT !.waiting = @ + 1]
    /\ UNCHANGED <<pc, exc, dl, files, cfgVars, playit, procVars, tunnelVars,
                   notifVars, exitStatus>>
    /\ UNCHANGED <<monitor, cronVars>>

\* The process exits and wait returns, or the 10 s are over and wait raises
\* TimeoutExpired, which line 346 logs.
ShutdownWaitEnd ==
    /\ pc = "shutdown_wait"
    /\ \E exited \in BOOLEAN :
         IF exited
            THEN shutdown' = [shutdown EXCEPT !.idx = @ + 1, !.waiting = 0]
            ELSE /\ ~WaitGoesOn(shutdown.waiting)
                 /\ shutdown' = [shutdown EXCEPT !.idx = @ + 1, !.waiting = 0,
                                                 !.errors = @ \cup {shutdown.idx}]
    /\ pc' = "shutdown_loop"
    /\ UNCHANGED <<exc, dl, files, cfgVars, playit, procVars, tunnelVars,
                   notifVars, exitStatus>>
    /\ UNCHANGED <<monitor, cronVars>>

\* graceful_shutdown returns to the finally clause of main, and the
\* interpreter exits: with status 1 if SystemExit is in flight, else 0.
ExitStatusOf(e) == IF e.type = "SystemExit" THEN e.msg ELSE "0"

Exit ==
    /\ pc = "shutdown_loop"
    /\ shutdown.idx > Len(processes)
    /\ shutdown.caller = "main"
    /\ pc' = "exited"
    /\ exitStatus' = ExitStatusOf(exc)
    /\ notifier' = Abandoned(notifier)
    /\ monitor' = AbandonedMonitor(monitor)
    /\ UNCHANGED <<exc, dl, files, cfgVars, playit, procVars, tunnelVars, posts,
                   shutdown>>
    /\ UNCHANGED cronVars

\* graceful_shutdown called on its own returns.
ShutdownDone ==
    /\ pc = "shutdown_loop"
    /\ shutdown.idx > Len(processes)
    /\ shutdown.caller = "direct"
    /\ pc' = "shutdown_done"
    /\ UNCHANGED <<exc, dl, files, mainOnly>>
    /\ UNCHANGED <<monitor, cronVars>>

---------------------------------------------------------------------------
(* add_to_crontab (instalar_playit.py), called once by each run of         *)
(* instalar_playit.main; two calls, one after the other, are followed.     *)

\* cron_job: "@reboot /usr/bin/python3 <script_path>", one token of text
CronJob == "@reboot /usr/bin/python3 instalar_playit.py"

\* The lines a crontab may hold before the first call: the job itself, the
\* job commented out, the job of a script whose path goes on after
\* script_path, and an unrelated job.
CronLines == {<<CronJob>>, <<"#", CronJob>>, <<CronJob, ".bak">>,
              <<"0 5 * * * backup">>}

\* the text of a crontab file: each line ends with a line break
RECURSIVE RenderLines(_)
RenderLines(ls) ==
    IF ls = <<>> THEN <<>> ELSE Head(ls) \o <<"\n">> \o RenderLines(Tail(ls))

\* exists: FALSE when the user has no crontab (`crontab -l` exits with 1)
NoCrontab == [exists |-> FALSE, text |-> <<>>]
Crontabs ==
    {NoCrontab} \cup
    {[exists |-> TRUE, text |-> RenderLines(ls)] :
        ls \in UNION {[1..n -> CronLines] : n \in 0..MaxCronLines}}

\* calls: the calls that have returned; current_cron: the local of the call
\* under way; once: the crontab as the first call left it; said: what the
\* calls printed; failed: a `crontab -` has exited with non-zero status.
NoCron == [calls |-> 0, current_cron |-> <<>>, before |-> NoCrontab,
           once |-> NoCrontab, said |-> <<>>, failed |-> FALSE]

\* Lines 27-28: current_cron = result.stdout if result.returncode == 0 else ""
CrontabList ==
    /\ pc = "crontab_l"
    /\ LET returncode == IF crontab.exists THEN 0 ELSE 1
       IN  cron' = [cron EXCEPT !.current_cron =
                                  IF returncode = 0 THEN crontab.text ELSE <<>>]
    /\ pc' = "cron_test"
    /\ UNCHANGED <<exc, dl, files, mainOnly, monitor, crontab>>

\* Line 30: cron_job in current_cron, a test for a substring
CronJobIn(current_cron) == Contains(current_cron, CronJob)

\* Line 34: current_cron.strip() + "\n" + cron_job + "\n"
NewCron(current_cron) == Strip(current_cron) \o <<"\n", CronJob, "\n">>

\* Lines 30-33.
CronTest ==
    /\ pc = "cron_test"
    /\ IF CronJobIn(cron.current_cron)
          THEN /\ cron' = [cron EXCEPT !.said = Append(@, "present")]
               /\ pc' = "cron_return"
          ELSE /\ cron' = cron
               /\ pc' = "crontab_write"
    /\ UNCHANGED <<exc, dl, files, mainOnly, monitor, crontab>>

\* Lines 35-39: `crontab -` replaces the crontab by its input, or fails.
CrontabWrite ==
    /\ pc = "crontab_write"
    /\ \E returncode \in {0, 1} :
         IF returncode = 0
            THEN /\ crontab' = [exists |-> TRUE, text |-> NewCron(cron.current_cron)]
                 /\ cron' = [cron EXCEPT !.said = Append(@, "added")]
            ELSE /\ crontab' = crontab
                 /\ cron' = [cron EXCEPT !.said = Append(@, "error"),
                                         !.failed = TRUE]
    /\ pc' = "cron_return"
    /\ UNCHANGED <<exc, dl, files, mainOnly, monitor>>

\* The call returns; the second call follows the first.
CronReturn ==
    /\ pc = "cron_return"
    /\ cron' = [cron EXCEPT !.calls = @ + 1,
                            !.current_cron = <<>>,
                            !.once = IF cron.calls = 0 THEN crontab ELSE @]
    /\ pc' = IF cron.calls = 0 THEN "crontab_l" ELSE "cron_done"
    /\ UNCHANGED <<exc, dl, files, mainOnly, monitor, crontab>>

---------------------------------------------------------------------------
(* The specifications *)

\* The state of main before its first line, with `processes = []`.
MainIdle ==
    /\ config = EmptyConfig
    /\ playit = NoPlayit
    /\ processes = <<>>
    /\ spawned = {}
    /\ signalled = {}
    /\ elapsed = 0
    /\ line = <<>>
    /\ tunnel_url = <<>>
    /\ announced = <<>>
    /\ notifier = NoNotifier
    /\ posts = <<>>
    /\ shutdown = NoShutdown
    /\ exitStatus = "running"
    /\ monitor = NoMonitor

\* no add_to_crontab call: setup_terraria.py makes none
CronIdle == crontab = NoCrontab /\ cron = NoCron

Init ==
    /\ pc = "load_config"
    /\ exc = NoExc
    /\ dl = NoDownload
    /\ files = [a \in Archives |-> "absent"]
    /\ cfgFile \in CfgFiles
    /\ MainIdle
    /\ CronIdle

Next ==
    \/ LoadConfig \/ SetupDirectories \/ CreateSymlink \/ SetupTerrariaServer
    \/ DlLoop \/ DlGet \/ DlExcept \/ DlReturnToCaller \/ DlRaiseToCaller
    \/ TerrariaExtract \/ CreateServerConfig \/ StartMonitor \/ ChooseTunnel
    \/ AskToken \/ AskWebhook
    \/ SetupNgrok \/ NgrokExtract \/ NgrokAuth \/ NgrokPopen \/ NgrokScan
    \/ ReadlineBlock \/ ReadlineReturn \/ NgrokCheck \/ SendToDiscord
    \/ AsyncSendPost \/ AsyncSendFinish \/ MonitorSleep \/ MonitorIterate
    \/ SetupPlayit \/ InstallPlayit \/ PlayitLaunch
    \/ StartTerrariaServer \/ ServerWait
    \/ Interrupt \/ Sigterm
    \/ MainExcept \/ MainFinally
    \/ ShutdownTerminate \/ ShutdownWaitTick \/ ShutdownWaitEnd \/ Exit

Spec == Init /\ [][Next]_vars

InitDownload ==
    /\ pc = "dl_loop"
    /\ exc = NoExc
    /\ \E n \in 0..MaxRetries : dl = NewDownload("direct", "artifact", n)
    /\ files \in [Archives -> {"absent", "full"}]
    /\ files["terraria-server.zip"] = "absent"
    /\ files["ngrok.zip"] = "absent"
    /\ cfgFile = [state |-> "absent", ngrok_token |-> "None",
                  discord_webhook |-> "None"]
    /\ MainIdle
    /\ CronIdle

NextDownload == DlLoop \/ DlGet \/ DlExcept \/ DlDone

SpecDownload == InitDownload /\ [][NextDownload]_vars

\* graceful_shutdown on its own, for every list of distinct processes.
Procs == {"ngrok", "playit", "server"}
TrackedLists ==
    {l \in UNION {[1..n -> Procs] : n \in 0..Cardinality(Procs)} :
       \A i, j \in DOMAIN l : l[i] = l[j] => i = j}

InitShutdown ==
    /\ pc = "shutdown_loop"
    /\ exc = NoExc
    /\ dl = NoDownload
    /\ files = [a \in Archives |-> "absent"]
    /\ cfgFile = [state |-> "absent", ngrok_token |-> "None",
                  discord_webhook |-> "None"]
    /\ config = EmptyConfig
    /\ playit = NoPlayit
    /\ processes \in TrackedLists
    /\ spawned = {processes[i] : i \in DOMAIN processes}
    /\ signalled = {}
    /\ elapsed = 0
    /\ line = <<>>
    /\ tunnel_url = <<>>
    /\ announced = <<>>
    /\ notifier = NoNotifier
    /\ posts = <<>>
    /\ shutdown = [NoShutdown EXCEPT !.runs = 1, !.idx = 1, !.caller = "direct"]
    /\ exitStatus = "running"
    /\ monitor = NoMonitor
    /\ CronIdle

NextShutdown ==
    ShutdownTerminate \/ ShutdownWaitTick \/ ShutdownWaitEnd \/ ShutdownDone

SpecShutdown == InitShutdown /\ [][NextShutdown]_vars

\* add_to_crontab twice, on every crontab of up to MaxCronLines lines.
InitCrontab ==
    /\ pc = "crontab_l"
    /\ exc = NoExc
    /\ dl = NoDownload
    /\ files = [a \in Archives |-> "absent"]
    /\ cfgFile = [state |-> "absent", ngrok_token |-> "None",
                  discord_webhook |-> "None"]
    /\ MainIdle
    /\ crontab \in Crontabs
    /\ cron = [NoCron EXCEPT !.before = crontab, !.once = crontab]

NextCrontab == CrontabList \/ CronTest \/ CrontabWrite \/ CronReturn

SpecCrontab == InitCrontab /\ [][NextCrontab]_vars

---------------------------------------------------------------------------
(* Properties *)

Range(s) == {s[i] : i \in DOMAIN s}

\* the delays 2^0, 2^1, ... written out
ExpectedDelays == <<1, 2, 4, 8, 16, 32, 64, 128, 256, 512>>

AllAttemptsFailedOnNetwork ==
    \A i \in DOMAIN dl.outcomes : dl.outcomes[i] \in NetworkFailures

\* C1: with max_retries = N >= 1 and every attempt failing on a network
\* error, download_file makes exactly N GETs, sleeps 2^k seconds after the
\* k-th failed attempt for k = 0..N-2, does not sleep after the last one and
\* then raises ServerError.
C1_BackoffSchedule ==
    (dl.max >= 1 /\ AllAttemptsFailedOnNetwork) =>
        /\ dl.gets <= dl.max
        /\ Len(dl.sleeps) <= dl.max - 1
        /\ \A k \in DOMAIN dl.sleeps : dl.sleeps[k] = ExpectedDelays[k]
        \* a sleep follows each failed attempt but the last
        /\ pc \in {"dl_loop", "dl_get"} => Len(dl.sleeps) = dl.gets
        /\ pc = "dl_except" => Len(dl.sleeps) = dl.gets - 1
        /\ pc # "dl_return"
        /\ pc \in {"dl_raise", "dl_done"} =>
              /\ dl.result = "ServerError"
              /\ dl.gets = dl.max
              /\ Len(dl.sleeps) = dl.max - 1

C1_Witness ==
    /\ pc = "dl_done"
    /\ dl.max = 4
    /\ AllAttemptsFailedOnNetwork
    /\ dl.gets = 4
    /\ dl.sleeps = <<1, 2, 4>>
    /\ dl.result = "ServerError"

\* C2: however the run ends (the game server exits, an interrupt during
\* setup or the wait, a fatal setup error, a configuration load failure),
\* graceful_shutdown has run exactly once when the program exits, and never
\* more than once before.  (A death by SIGTERM is none of these ways: C3.)
C2_ShutdownExactlyOnce ==
    /\ shutdown.runs <= 1
    /\ (pc = "exited" /\ exitStatus \in {"0", "1"}) => shutdown.runs = 1
    /\ exitStatus \in {"0", "1"} => pc = "exited"

C2_Witness ==
    /\ pc = "exited"
    /\ cfgFile.state = "corrupt"
    /\ exitStatus = "1"
    /\ shutdown.runs = 1

\* C3: when a terminate signal ends the program while processes are tracked,
\* every tracked process has been sent a terminate signal.
C3_SigtermTerminatesTracked ==
    exitStatus = "SIGTERM" => Range(processes) \subseteq signalled

\* C4: graceful_shutdown calls terminate on every tracked process, in
\* order, whichever of the calls raise and whichever of the waits time out;
\* it returns without raising; no wait lasts longer than 10 seconds.
C4_ShutdownAll ==
    /\ exc = NoExc
    /\ shutdown.waiting <= SHUTDOWN_WAIT
    /\ Len(shutdown.calls) <= Len(processes)
    /\ shutdown.calls = SubSeq(processes, 1, Len(shutdown.calls))
    /\ pc = "shutdown_loop" => Len(shutdown.calls) = shutdown.idx - 1
    /\ pc = "shutdown_wait" => Len(shutdown.calls) = shutdown.idx
    /\ pc = "shutdown_done" => shutdown.calls = processes
    /\ pc \in {"shutdown_loop", "shutdown_wait", "shutdown_done"}

C4_Witness ==
    /\ pc = "shutdown_done"
    /\ Len(processes) = 3
    /\ shutdown.errors = {1, 2}
    /\ signalled = {processes[2], processes[3]}
    /\ shutdown.calls = processes

\* C5: while the scan has found no address, it is over, reported as a
\* failure with the client terminated, no later than the 30 s deadline + 1 s.
C5_ScanEndsByDeadline ==
    /\ (pc \in {"ngrok_scan", "ngrok_readline"}) => elapsed <= SCAN_DEADLINE + 1
    /\ (pc = "ngrok_check" /\ tunnel_url = <<>>) => elapsed <= SCAN_DEADLINE + 1
    /\ (exc = Exc("ServerError", "tunnel_url")) => "ngrok" \in signalled

\* A 'url=tcp://<host>:<port>' token: the key, a host, ':' and digits.
HostPortAt(text, i) ==
    /\ i + 3 <= Len(text)
    /\ text[i] = UrlKey
    /\ text[i + 1] \notin Whitespace \cup {":", UrlKey, Marker}
    /\ text[i + 2] = ":"
    /\ text[i + 3] \in DigitTokens
HasHostPort(text) == \E i \in DOMAIN text : HostPortAt(text, i)
HostPortOf(text) ==
    LET i == CHOOSE k \in DOMAIN text : HostPortAt(text, k)
    IN  <<text[i + 1], ":", text[i + 3]>>

\* C6: a line with the 'started tunnel' marker and a url=tcp://<host>:<port>
\* token ends the scan, and the address bring-up goes on with is exactly
\* '<host>:<port>'; while the scan goes on, no line read so far was such a
\* line and no address has been produced.
C6_ExactHostPort ==
    /\ (pc \in {"ngrok_check", "send_to_discord"}
           /\ Contains(line, Marker) /\ HasHostPort(line))
          => tunnel_url = HostPortOf(line)
    /\ pc \in {"ngrok_scan", "ngrok_readline"} =>
          /\ ~(Contains(line, Marker) /\ HasHostPort(line))
          /\ tunnel_url = <<>>
          /\ announced = <<>>

\* a host, exactly one ':' and a numeric port
HostColonPort(a) ==
    /\ Len(a) = 3
    /\ a[1] \notin Whitespace \cup {":", UrlKey, Marker}
    /\ a[2] = ":"
    /\ a[3] \in DigitTokens

\* the addresses handed to the operator message and to the notifier
HandedOut ==
    Range(announced) \cup (IF notifier.state = "none" THEN {} ELSE {notifier.address})

\* C7: every address handed to the operator message or to the notifier is a
\* host, one ':' and a numeric port.
C7_AddressShape == \A a \in HandedOut : HostColonPort(a)

\* send_to_discord has been called: its caller tracks the client right after
Notified == "ngrok" \in Range(processes)

\* missing ':' separator or non-numeric port
Malformed(a) ==
    \/ ":" \notin Range(a)
    \/ LET i == CHOOSE k \in DOMAIN a : a[k] = ":" /\ \A j \in 1..(k - 1) : a[j] # ":"
       IN  i = Len(a) \/ \E j \in (i + 1)..Len(a) : a[j] \notin DigitTokens

\* C8: with no endpoint configured send_to_discord starts no thread and
\* nothing is posted; with a malformed address nothing is posted; and the
\* caller goes on with no exception in flight.
C8_NoPostWithoutEndpointOrAddress ==
    /\ (Notified /\ ~Truthy(config.discord_webhook)) =>
          notifier.state = "none" /\ posts = <<>>
    /\ notifier.state = "none" => posts = <<>>
    /\ (notifier.state # "none" /\ Malformed(notifier.address)) => posts = <<>>
    /\ pc = "start_terraria_server" => exc = NoExc

C8_Witness ==
    /\ notifier.state = "done"
    /\ notifier.address = <<"1.2.3.4">>
    /\ notifier.logged = "error"
    /\ posts = <<>>
    /\ pc = "server_wait"

\* C9 as stated: a configured endpoint and a well-formed address give
\* exactly one POST in every execution, also when the main flow fails or
\* exits right after send_to_discord returns.
C9_PostIssuedByExit ==
    (pc = "exited" /\ exitStatus \in {"0", "1"}
        /\ notifier.state # "none" /\ ~Malformed(notifier.address))
      => Len(posts) = 1

\* C9 as amended: at most one POST is made; a POST goes to the configured
\* endpoint and carries the host and the port of the address; the thread of
\* a well-formed address that has reached requests.post has made exactly
\* one; a thread the exit of the program has cut short has made at most one.
C9_AtMostOnePostWithHostAndPort ==
    /\ Len(posts) <= 1
    /\ \A i \in DOMAIN posts :
          /\ posts[i].endpoint = config.discord_webhook
          /\ Truthy(posts[i].endpoint)
          /\ notifier.address = posts[i].ip \o <<":">> \o posts[i].port
          /\ Len(posts[i].ip) = 1
          /\ posts[i].port # <<>> /\ Range(posts[i].port) \subseteq DigitTokens
    /\ (notifier.state \in {"posting", "done"} /\ ~Malformed(notifier.address))
          => Len(posts) = 1
    /\ (notifier.state = "running") => posts = <<>>

C9_Witness ==
    /\ notifier.state = "done"
    /\ notifier.logged = "sent"
    /\ posts = <<[endpoint |-> "valid", ip |-> <<"1.2.3.4">>, port |-> <<"5000">>]>>

\* a step of the notifier thread
NotifierStep ==
    /\ notifier.state \in {"running", "posting"}
    /\ notifier'.state \in {"posting", "done"}
    /\ notifier' # notifier

\* C10: no step of the notifier thread (a POST issued, delivered, failed or
\* timed out, a malformed address) moves the main flow, raises in it, touches
\* the tracked processes or starts the shutdown; and the main flow, once
\* send_to_discord has returned, can start the game server whatever the
\* thread is doing.
C10_NotifierNeverBlocksOrAborts ==
    /\ [][NotifierStep =>
            UNCHANGED <<pc, exc, processes, spawned, signalled, shutdown,
                        exitStatus>>]_vars
    /\ [](pc = "start_terraria_server" => ENABLED StartTerrariaServer)

C10_Witness ==
    /\ pc = "server_wait"
    /\ "server" \in spawned
    /\ notifier.state = "running"
    /\ posts = <<>>

\* an error other than an interrupt has reached the handlers of main
FatalInFlight == pc = "main_except" /\ exc.type # "KeyboardInterrupt"

\* C11: a fatal error leaves the handlers of main as SystemExit(1) and stays
\* so through the shutdown; the program then exits with status 1 after
\* terminate was called on every tracked process, the tunnel first (each is
\* signalled unless that call itself raised, which is logged).
C11_FatalErrorTearsDownAndExitsNonZero ==
    [][/\ (FatalInFlight /\ pc' = "main_finally") => exc' = Exc("SystemExit", "1")
       /\ (pc \in {"main_finally", "shutdown_loop", "shutdown_wait"}) => exc' = exc
       /\ (pc' = "exited" /\ exitStatus' \in {"0", "1"} /\ exc.type = "SystemExit")
             => /\ exitStatus' = "1"
                /\ shutdown.calls = processes
                /\ \A i \in DOMAIN processes :
                      processes[i] \in signalled \/ i \in shutdown.errors]_vars

C11_Witness ==
    /\ pc = "exited"
    /\ exitStatus = "1"
    /\ exc = Exc("SystemExit", "1")
    /\ processes = <<"ngrok">>
    /\ "server" \notin spawned
    /\ shutdown.calls = <<"ngrok">>
    /\ "ngrok" \in signalled

\* an installing step has just ended: it returned to main, or what it raised
\* has reached the handlers of main
InstallStepEnded ==
    \/ pc \in {"create_server_config", "ngrok_auth"}
    \/ pc = "main_except"
       /\ exc.msg \in {"download_file", "bad_zip", "no_binary", "extract",
                       "ngrok.zip"}

\* C12: when setup_terraria_server's or setup_ngrok's installation ends
\* (extraction done, download failed for good, corrupt archive, missing
\* binary, any other extraction error), neither archive is on disk.
C12_ArchiveGoneWhenStepEnds ==
    InstallStepEnded =>
        /\ files["terraria-server.zip"] = "absent"
        /\ files["ngrok.zip"] = "absent"

\* C13: once download_file has given up and raises ServerError, the file at
\* the destination is not a partially written body.
C13_NoPartialBodyAfterFailure ==
    (pc \in {"dl_raise", "dl_done"} /\ dl.result = "ServerError")
        => files[dl.dest] # "partial"

\* C14: once a command of install_playit has failed, the playit daemon is
\* not launched and the game server is not started.
C14_InstallFailureAborts ==
    playit.failed => ("playit" \notin spawned /\ "server" \notin spawned)

\* a persisted file that is no JSON, or whose token or webhook has the
\* wrong shape
BadConfigFile(f) ==
    \/ f.state = "corrupt"
    \/ f.state = "ok" /\ "invalid" \in {f.ngrok_token, f.discord_webhook}

\* load_config has run to its end in this step
LoadConfigStep ==
    pc = "load_config" /\ pc' # "load_config" /\ exitStatus' = "running"
                       /\ exc'.type # "KeyboardInterrupt"

\* a configuration error has reached the handlers of main: the sys.exit(1)
\* of load_config, or the ConfigError raised after a prompt
ConfigErrorInFlight ==
    pc = "main_except" /\ exc.type \in {"SystemExit", "ConfigError"}

AfterTry == {"main_except", "main_finally", "shutdown_loop", "shutdown_wait",
             "exited"}

\* C15: load_config ends the run with sys.exit(1) on a bad persisted file; a
\* typed token or webhook of the wrong shape raises ConfigError; either
\* reaches the handlers of main with no subprocess launched, none is
\* launched from there on, the handlers make it exit status 1, and no write
\* of the configuration file ever holds a value of the wrong shape.
C15_ConfigErrorAbortsBeforeLaunch ==
    [][/\ (LoadConfigStep /\ BadConfigFile(cfgFile))
             => (pc' = "main_except" /\ exc' = Exc("SystemExit", "1"))
       /\ (pc \in {"ask_token", "ask_webhook"} /\ config' # config
             /\ "invalid" \in {config'.ngrok_token, config'.discord_webhook})
             => (pc' = "main_except" /\ exc'.type = "ConfigError"
                   /\ cfgFile' = cfgFile)
       /\ ConfigErrorInFlight => spawned = {}
       /\ pc \in AfterTry => spawned' = spawned
       /\ (ConfigErrorInFlight /\ pc' = "main_finally")
             => exc' = Exc("SystemExit", "1")
       /\ (pc' = "exited" /\ exitStatus' \in {"0", "1"} /\ exc.type = "SystemExit")
             => exitStatus' = "1"
       /\ cfgFile' # cfgFile
             => "invalid" \notin {cfgFile'.ngrok_token, cfgFile'.discord_webhook}]_vars

C15_Witness ==
    /\ pc = "exited"
    /\ exitStatus = "1"
    /\ spawned = {}
    /\ config = [ngrok_token |-> "valid", discord_webhook |-> "invalid"]
    /\ cfgFile = [state |-> "ok", ngrok_token |-> "valid",
                  discord_webhook |-> "None"]

\* the lines of a crontab text that are not blank
RECURSIVE SplitLines(_)
SplitLines(text) ==
    IF text = <<>> THEN <<>>
    ELSE LET i == IndexOf(text, "\n")
         IN  IF i = 0 THEN <<text>>
             ELSE <<SubSeq(text, 1, i - 1)>> \o SplitLines(After(text, i))
EntriesOf(text) == SelectSeq(SplitLines(text), LAMBDA entry : entry # <<>>)

\* how many lines of the crontab text are this entry
CountOf(text, entry) ==
    Cardinality({i \in DOMAIN EntriesOf(text) : EntriesOf(text)[i] = entry})

\* C16: after two calls of add_to_crontab, neither `crontab -` having
\* failed, the crontab holds the job of this program exactly once, is as the
\* first call left it, and holds every line it held before the calls.
C16_RegisteredExactlyOnce ==
    (pc = "cron_done" /\ ~cron.failed) =>
        /\ CountOf(crontab.text, <<CronJob>>) = 1
        /\ crontab = cron.once
        /\ \A entry \in Range(EntriesOf(cron.before.text)) :
              CountOf(crontab.text, entry) >= CountOf(cron.before.text, entry)

\* a step of the monitor thread itself
MonitorStep ==
    /\ monitor.state \in {"sleep", "inspect"}
    /\ monitor' # monitor
    /\ monitor'.state # "killed"

\* C17: server_monitor never ends by itself; only the exit of the program
\* stops it.  A pass through its try block that raises logs the error and
\* leads back to the head of the loop; every pass follows a sleep of 300 s;
\* the thread can always take its next step while the program runs.  No step
\* of the thread moves the main flow, raises in it, or touches the tracked
\* processes or the shutdown, and the main flow can exit whatever the thread
\* is doing.
C17_MonitorSurvivesErrors ==
    /\ [](monitor.state # "dead")
    /\ [](monitor.state = "killed" => pc = "exited")
    /\ [][MonitorStep =>
            UNCHANGED <<pc, exc, processes, spawned, signalled, shutdown,
                        exitStatus>>]_vars
    /\ [][(MonitorStep /\ monitor.state = "inspect" /\ monitor'.last = "raised")
            => (monitor'.state = "sleep" /\ monitor'.logged = "error")]_vars
    /\ [][(monitor'.state = "inspect" /\ monitor.state # "inspect")
            => (monitor.state = "sleep" /\ monitor'.slept = MONITOR_INTERVAL)]_vars
    /\ []((monitor.state = "sleep" /\ exitStatus = "running"
              /\ monitor.iterations < MaxIterations) => ENABLED MonitorSleep)
    /\ []((monitor.state = "inspect" /\ exitStatus = "running")
              => ENABLED MonitorIterate)
    /\ []((pc = "shutdown_loop" /\ shutdown.idx > Len(processes)) => ENABLED Exit)

C17_Witness ==
    /\ monitor.state = "inspect"
    /\ monitor.iterations = 1
    /\ monitor.last = "raised"
    /\ monitor.logged = "error"
    /\ monitor.slept = MONITOR_INTERVAL
    /\ pc = "server_wait"

\* C18: when the shutdown is about to start, every subprocess spawned so far
\* is in the tracked list or was sent terminate by the step that spawned it.
C18_SpawnedTrackedOrSignalled ==
    pc = "main_finally" => spawned \subseteq (Range(processes) \cup signalled)

\* The stages of the try block of main, in the order of its statements.
\* download_file belongs to the step that called it.
StageOf(position, caller) ==
    CASE position = "load_config" -> 1
      [] position = "setup_directories" -> 2
      [] position = "create_symlink" -> 3
      [] position \in {"setup_terraria_server", "terraria_extract",
                       "create_server_config"} -> 4
      [] position \in {"dl_loop", "dl_get", "dl_except", "dl_return", "dl_raise"}
            -> IF caller = "terraria" THEN 4 ELSE 7
      [] position = "start_monitor" -> 5
      [] position \in {"choose_tunnel", "ask_token", "ask_webhook"} -> 6
      [] position \in {"setup_ngrok", "ngrok_extract", "ngrok_auth", "ngrok_popen",
                       "ngrok_scan", "ngrok_readline", "ngrok_check",
                       "send_to_discord", "setup_playit", "install_playit",
                       "playit_launch"} -> 7
      [] position = "start_terraria_server" -> 8
      [] position = "server_wait" -> 9
      [] OTHER -> 10

Tunnels == {"ngrok", "playit"}

\* C19: the stages of main are passed in order, none skipped, each entered
\* with no exception in flight; a subprocess is launched only in the tunnel
\* stage or later, the game server only in its own stage with the tunnel
\* process tracked; the tracked list is empty, one tunnel process, or one
\* tunnel process and then the game server; only a step of the main flow
\* changes it.
C19_StartupOrdered ==
    /\ [](pc \notin AfterTry => exc = NoExc)
    /\ [](\/ processes = <<>>
          \/ \E t \in Tunnels : processes \in {<<t>>, <<t, "server">>})
    /\ [](StageOf(pc, dl.caller) <= 6 => spawned = {})
    /\ [][pc' \notin AfterTry =>
            StageOf(pc', dl'.caller) \in
               {StageOf(pc, dl.caller), StageOf(pc, dl.caller) + 1}]_vars
    /\ [][spawned' # spawned =>
            /\ StageOf(pc, dl.caller) \in {7, 8}
            /\ "server" \in spawned' =>
                  /\ pc = "start_terraria_server"
                  /\ \E t \in Tunnels : processes = <<t>> /\ t \in spawned]_vars
    /\ [][processes' # processes =>
            /\ pc' # pc
            /\ ~MonitorStep
            /\ ~NotifierStep
            /\ processes' \in {Append(processes, "ngrok"),
                               Append(processes, "playit"),
                               Append(processes, "server")}]_vars

C19_Witness ==
    /\ pc = "server_wait"
    /\ processes = <<"playit", "server">>
    /\ spawned = {"playit", "server"}
    /\ monitor.state = "sleep"

\* C20: download_file has returned normally only after an attempt whose GET
\* succeeded and whose body was written in full; that attempt is its last,
\* and no sleep follows it.
C20_ReturnsOnlyAfterFullBody ==
    (pc \in {"dl_return", "dl_done"} /\ dl.result = "returned") =>
        /\ dl.gets >= 1
        /\ dl.outcomes[Len(dl.outcomes)] = "ok"
        /\ \A i \in 1..(Len(dl.outcomes) - 1) : dl.outcomes[i] # "ok"
        /\ files[dl.dest] = "full"
        /\ Len(dl.sleeps) = dl.gets - 1

=============================================================================
